---- MODULE Spec2Model ----
(***************************************************************************)
(* Evaluation aggregation and verdict engine of the LLM evaluation         *)
(* framework: the three evaluators (RAG, Agent, Chatbot), the dataset       *)
(* loader and its validation helper, the report generator, the              *)
(* run_*_evaluation drivers, run_all_evaluations and main.                  *)
(*                                                                          *)
(* Scores are floats in the source; here they are tenths (7 is 0.7).  An    *)
(* average is kept as the exact fraction sum/len, the record [num, den],    *)
(* and compared against a threshold by cross-multiplication.                *)
(***************************************************************************)
EXTENDS Integers, Sequences, FiniteSets, TLC

VARIABLES
    system,        \* which run_*_evaluation is executing: "rag", "agent", "chatbot"
    settings,      \* src/config/settings.py: default_threshold, toxicity_threshold
    dataset,       \* the JSON data of the dataset file of this system type
    evaluator,     \* BaseEvaluator fields: threshold, toxicity_threshold
    metric_obj,    \* the evaluator's metric objects: last score, reason, success
    test_cases,    \* argument of the evaluate call in progress
    idx,           \* enumerate position in test_cases (1-based; test_case_id = idx - 1)
    pos,           \* position of the next metric to measure within the case
    local,         \* evaluate's local <metric>_score variables for the current case
    results,       \* evaluate's results dictionary
    judge_calls,   \* log of metric.measure invocations, in order
    pc,            \* control position of the run
    exit_code,     \* value returned by run_*_evaluation (NoCode until it returns)
    judge_memo,    \* answers a repeatable judge has already given
    repeatable,    \* TRUE when the judge returns the same score for the same case
    first_results, \* result of the first evaluate call of a two-call session
    perm,          \* permutation applied to the case list for the second call
    reports,       \* report files written so far: pairs <<system, "json" or "html">>
    calls,         \* number of evaluate calls entered on this evaluator
    docs,          \* what generate_report and the two save calls last rendered
    ran,           \* the run_*_evaluation functions entered so far, in order
    selection,     \* args.system of main: "rag", "agent", "chatbot" or "all"
    gemini_api_key,       \* settings.google_api_key
    arg_threshold, \* args.threshold of main (NoCode when the option is absent)
    dirs_created,  \* TRUE once settings.ensure_directories has run
    exit_codes,    \* run_all_evaluations' list of the statuses collected so far
    main_status,   \* value returned by main (NoCode until it returns)
    validation     \* outcome of the last validate_dataset call (NoDoc before it)

vars == <<system, settings, dataset, evaluator, metric_obj, test_cases, idx, pos,
          local, results, judge_calls, pc, exit_code, judge_memo, repeatable,
          first_results, perm, reports, calls, docs, ran, selection, gemini_api_key,
          arg_threshold, dirs_created, exit_codes, main_status, validation>>

main_vars == <<selection, gemini_api_key, arg_threshold, dirs_created, exit_codes, main_status>>

----------------------------------------------------------------------------
(* Bounds *)

MaxCases == 2

(* Score values the judge may return, in tenths. *)
QualityScores == {5, 9}
ToxicityScores == {0, 4}
Thresholds == {7, 9}
ToxicityThresholds == {0, 2}

NoCode == 0 - 1

(* Nothing rendered yet. *)
NoDoc == [kind |-> "none"]

NoDocs == [text |-> NoDoc, json |-> NoDoc, html |-> NoDoc]

----------------------------------------------------------------------------
(* Metric policy of each evaluator: the order in which evaluate measures. *)

RAGMetricsRelevancyFirst == <<"answer_relevancy", "faithfulness", "contextual_recall">>

RAGMetrics == <<"faithfulness", "contextual_recall", "answer_relevancy">>

AgentMetrics == <<"correctness", "answer_relevancy">>

ChatbotMetrics == <<"toxicity", "answer_relevancy">>

MetricsOf(sys) ==
    CASE sys = "rag" -> RAGMetrics
      [] sys = "agent" -> AgentMetrics
      [] sys = "chatbot" -> ChatbotMetrics

Range(s) == {s[j] : j \in 1..Len(s)}

JudgeScores(k) == IF k = "toxicity" THEN ToxicityScores ELSE QualityScores

----------------------------------------------------------------------------
(* Test cases.  An element of a dataset file is a JSON object, here a record  *)
(* of the fields it has; "" is the empty string.                             *)

Inputs == <<"q1", "q2", "q3", "q4", "q5">>

ValidCase(j) ==
    [input |-> Inputs[j], actual_output |-> "answer",
     expected_output |-> "expected", context |-> <<"doc">>]

BlankInputCase == [ValidCase(1) EXCEPT !.input = ""]

BlankOutputCase(j) == [ValidCase(j) EXCEPT !.actual_output = ""]

ValidDataset(n) == [j \in 1..n |-> ValidCase(j)]

(* Datasets a file can hold: valid cases, or valid cases with one case whose *)
(* input or actual_output is empty.                                          *)
Datasets ==
    {ValidDataset(n) : n \in 0..MaxCases}
    \cup {[ValidDataset(n) EXCEPT ![n] = BlankInputCase] : n \in 1..MaxCases}
    \cup {[ValidDataset(n) EXCEPT ![1] = BlankOutputCase(1)] : n \in 1..MaxCases}

(* The pydantic models of the three case types: every field is required. *)
RAGTestCase == {"input", "actual_output", "expected_output", "context"}

AgentTestCase == {"input", "actual_output", "expected_output"}

ChatbotTestCase == {"input", "actual_output"}

Without(element, field) == [f \in (DOMAIN element) \ {field} |-> element[f]]

(* A dataset file without the "test_cases" key. *)
NoCollectionFile == [description |-> "no cases"]

(* The JSON documents a dataset file can hold: a case list from Datasets, no  *)
(* "test_cases" key at all, or a list with an element that lacks a field.     *)
DataFiles ==
    {[test_cases |-> d] : d \in Datasets}
    \cup {NoCollectionFile}
    \cup {[test_cases |-> [ValidDataset(n) EXCEPT
                              ![n] = Without(ValidCase(n), "expected_output")]] :
             n \in 1..MaxCases}
    \cup {[test_cases |-> <<Without(ValidCase(1), "input")>>]}

(* The body shared by load_rag_dataset, load_agent_dataset and               *)
(* load_chatbot_dataset: data.get("test_cases", []) and one model object per *)
(* element; the model constructor raises when a required field is absent and *)
(* keeps the model's fields only.                                            *)
load_dataset(model, data) ==
    LET raw == IF "test_cases" \in DOMAIN data THEN data.test_cases ELSE <<>>
    IN  IF \E j \in 1..Len(raw) : ~(model \subseteq DOMAIN raw[j])
        THEN [raised |-> TRUE, cases |-> <<>>]
        ELSE [raised |-> FALSE,
              cases |-> [j \in 1..Len(raw) |-> [f \in model |-> raw[j][f]]]]

load_rag_dataset(data) == load_dataset(RAGTestCase, data)

load_agent_dataset(data) == load_dataset(AgentTestCase, data)

load_chatbot_dataset(data) == load_dataset(ChatbotTestCase, data)

LoadOf(sys, data) ==
    CASE sys = "rag" -> load_rag_dataset(data)
      [] sys = "agent" -> load_agent_dataset(data)
      [] sys = "chatbot" -> load_chatbot_dataset(data)

(* DatasetLoader.validate_dataset: True, or the ValueError it raises. *)
validate_dataset_input_only(cases) ==
    IF cases = <<>>
    THEN [ok |-> FALSE, error |-> "Dataset is empty", index |-> NoCode]
    ELSE LET bad == {j \in 1..Len(cases) : cases[j].input = ""}
         IN  IF bad = {}
             THEN [ok |-> TRUE, error |-> "", index |-> NoCode]
             ELSE [ok |-> FALSE, error |-> "has missing required fields",
                   index |-> (CHOOSE j \in bad : \A h \in bad : j <= h) - 1]

validate_dataset(cases) ==
    IF cases = <<>>
    THEN [ok |-> FALSE, error |-> "Dataset is empty", index |-> NoCode]
    ELSE LET bad == {j \in 1..Len(cases) :
                        cases[j].input = "" \/ cases[j].actual_output = ""}
         IN  IF bad = {}
             THEN [ok |-> TRUE, error |-> "", index |-> NoCode]
             ELSE [ok |-> FALSE, error |-> "has missing required fields",
                   index |-> (CHOOSE j \in bad : \A h \in bad : j <= h) - 1]

----------------------------------------------------------------------------
(* BaseEvaluator helpers *)

RECURSIVE Sum(_)
Sum(s) == IF s = <<>> THEN 0 ELSE Head(s) + Sum(Tail(s))

calculate_average_score_skip_last(scores) ==
    IF scores = <<>> THEN [num |-> 0, den |-> 1]
    ELSE [num |-> Sum(SubSeq(scores, 1, Len(scores) - 1)), den |-> Len(scores)]

calculate_average_score_empty_is_full(scores) ==
    IF scores = <<>> THEN [num |-> 10, den |-> 1]
    ELSE [num |-> Sum(scores), den |-> Len(scores)]

calculate_average_score_off_by_one(scores) ==
    IF scores = <<>> THEN [num |-> 0, den |-> 1]
    ELSE [num |-> Sum(scores), den |-> Len(scores) + 1]

(* calculate_average_score: 0.0 for an empty list, else sum / len. *)
calculate_average_score(scores) ==
    IF scores = <<>> THEN [num |-> 0, den |-> 1]
    ELSE [num |-> Sum(scores), den |-> Len(scores)]

(* average >= threshold on exact fractions *)
AtLeast(avg, threshold) == avg.num >= threshold * avg.den

check_pass_threshold_lenient(ev, score) == score >= ev.threshold - 2

check_pass_threshold_strict(ev, score) == score > ev.threshold

(* check_pass_threshold: score >= self.threshold *)
check_pass_threshold(ev, score) == score >= ev.threshold

(* chatbot: toxicity_passed = toxicity_score <= self.toxicity_threshold *)
toxicity_passed(ev, score) == score <= ev.toxicity_threshold

(* The judge's explanation for one call: opaque text about what it was shown. *)
Reason(k, case, score) == <<k, case.input, score>>

NoMeasure == [score |-> NoCode, reason |-> <<>>, success |-> FALSE]

----------------------------------------------------------------------------
(* RAGEvaluator.evaluate *)

RAGResultsInit(cases) ==
    [total_cases |-> Len(cases),
     scores |-> [k \in Range(RAGMetrics) |-> <<>>],
     individual_results |-> <<>>]

MetricResultFromJudge(ev, score, mobj) ==
    [score |-> score, passed |-> mobj.success, reason |-> mobj.reason]

MetricResult(ev, score, mobj) ==
    [score |-> score, passed |-> check_pass_threshold(ev, score), reason |-> mobj.reason]

RAGIndividualCountedFromOne(ev, id, case, loc, mobj) ==
    [test_case_id |-> id + 1,
     input |-> case.input,
     faithfulness |-> MetricResult(ev, loc["faithfulness"], mobj["faithfulness"]),
     contextual_recall |-> MetricResult(ev, loc["contextual_recall"], mobj["contextual_recall"]),
     answer_relevancy |-> MetricResult(ev, loc["answer_relevancy"], mobj["answer_relevancy"])]

RAGIndividualRelevancyReasonReused(ev, id, case, loc, mobj) ==
    [test_case_id |-> id,
     input |-> case.input,
     faithfulness |-> MetricResult(ev, loc["faithfulness"], mobj["answer_relevancy"]),
     contextual_recall |-> MetricResult(ev, loc["contextual_recall"], mobj["answer_relevancy"]),
     answer_relevancy |-> MetricResult(ev, loc["answer_relevancy"], mobj["answer_relevancy"])]

RAGIndividual(ev, id, case, loc, mobj) ==
    [test_case_id |-> id,
     input |-> case.input,
     faithfulness |-> MetricResult(ev, loc["faithfulness"], mobj["faithfulness"]),
     contextual_recall |-> MetricResult(ev, loc["contextual_recall"], mobj["contextual_recall"]),
     answer_relevancy |-> MetricResult(ev, loc["answer_relevancy"], mobj["answer_relevancy"])]

(* Store scores and the individual result of one case (loop body tail). *)
RAGStore(res, ev, id, case, loc, mobj) ==
    [res EXCEPT
       !.scores = [k \in DOMAIN @ |-> Append(@[k], loc[k])],
       !.individual_results = Append(@, RAGIndividual(ev, id, case, loc, mobj))]

RAGPassedPooledOnly(ev, overall, avg) == AtLeast(overall, ev.threshold)

RAGPassed(ev, overall, avg) ==
    /\ AtLeast(overall, ev.threshold)
    /\ AtLeast(avg["faithfulness"], ev.threshold)
    /\ AtLeast(avg["contextual_recall"], ev.threshold)
    /\ AtLeast(avg["answer_relevancy"], ev.threshold)

(* Averages, pooled average and verdict (after the loop). *)
RAGFinish(res, ev) ==
    LET avg == [k \in Range(RAGMetrics) |-> calculate_average_score(res.scores[k])]
        all_scores == res.scores["faithfulness"] \o res.scores["contextual_recall"]
                        \o res.scores["answer_relevancy"]
        overall == calculate_average_score(all_scores)
    IN  res @@ [average |-> avg,
                overall_average |-> overall,
                passed |-> RAGPassed(ev, overall, avg)]

----------------------------------------------------------------------------
(* AgentEvaluator.evaluate *)

AgentResultsInit(cases) ==
    [total_cases |-> Len(cases),
     scores |-> [k \in Range(AgentMetrics) |-> <<>>],
     individual_results |-> <<>>]

AgentIndividual(ev, id, case, loc, mobj) ==
    [test_case_id |-> id,
     input |-> case.input,
     correctness |-> MetricResult(ev, loc["correctness"], mobj["correctness"]),
     answer_relevancy |-> MetricResult(ev, loc["answer_relevancy"], mobj["answer_relevancy"])]

AgentStore(res, ev, id, case, loc, mobj) ==
    [res EXCEPT
       !.scores = [k \in DOMAIN @ |-> Append(@[k], loc[k])],
       !.individual_results = Append(@, AgentIndividual(ev, id, case, loc, mobj))]

AgentPassedAnyMetric(ev, overall, avg) ==
    /\ AtLeast(overall, ev.threshold)
    /\ (AtLeast(avg["correctness"], ev.threshold)
           \/ AtLeast(avg["answer_relevancy"], ev.threshold))

AgentPassed(ev, overall, avg) ==
    /\ AtLeast(overall, ev.threshold)
    /\ AtLeast(avg["correctness"], ev.threshold)
    /\ AtLeast(avg["answer_relevancy"], ev.threshold)

AgentFinish(res, ev) ==
    LET avg == [k \in Range(AgentMetrics) |-> calculate_average_score(res.scores[k])]
        all_scores == res.scores["correctness"] \o res.scores["answer_relevancy"]
        overall == calculate_average_score(all_scores)
    IN  res @@ [average |-> avg,
                overall_average |-> overall,
                passed |-> AgentPassed(ev, overall, avg)]

----------------------------------------------------------------------------
(* ChatbotEvaluator.evaluate *)

ChatbotResultsInit(cases) ==
    [total_cases |-> Len(cases),
     scores |-> [k \in Range(ChatbotMetrics) |-> <<>>],
     individual_results |-> <<>>,
     toxic_cases |-> <<>>]

ToxicCase(id, case, loc, mobj) ==
    [test_case_id |-> id,
     input |-> case.input,
     output |-> case.actual_output,
     toxicity_score |-> loc["toxicity"],
     reason |-> mobj["toxicity"].reason]

ChatbotIndividual(ev, id, case, loc, mobj) ==
    [test_case_id |-> id,
     input |-> case.input,
     actual_output |-> case.actual_output,
     toxicity |-> [score |-> loc["toxicity"],
                   passed |-> toxicity_passed(ev, loc["toxicity"]),
                   reason |-> mobj["toxicity"].reason],
     answer_relevancy |-> MetricResult(ev, loc["answer_relevancy"], mobj["answer_relevancy"])]

ChatbotStoreNewestFirst(res, ev, id, case, loc, mobj) ==
    [res EXCEPT
       !.scores = [k \in DOMAIN @ |-> Append(@[k], loc[k])],
       !.toxic_cases = IF ~toxicity_passed(ev, loc["toxicity"])
                       THEN <<ToxicCase(id, case, loc, mobj)>> \o @
                       ELSE @,
       !.individual_results = Append(@, ChatbotIndividual(ev, id, case, loc, mobj))]

ChatbotStore(res, ev, id, case, loc, mobj) ==
    [res EXCEPT
       !.scores = [k \in DOMAIN @ |-> Append(@[k], loc[k])],
       !.toxic_cases = IF ~toxicity_passed(ev, loc["toxicity"])
                       THEN Append(@, ToxicCase(id, case, loc, mobj))
                       ELSE @,
       !.individual_results = Append(@, ChatbotIndividual(ev, id, case, loc, mobj))]

has_toxic_content(res) == Len(res.toxic_cases) > 0

ChatbotPassedByAverage(ev, res, avg) ==
    /\ avg["toxicity"].num <= ev.toxicity_threshold * avg["toxicity"].den
    /\ AtLeast(avg["answer_relevancy"], ev.threshold)

ChatbotPassedRelevancyOnly(ev, res, avg) ==
    AtLeast(avg["answer_relevancy"], ev.threshold)

ChatbotPassed(ev, res, avg) ==
    /\ ~has_toxic_content(res)
    /\ AtLeast(avg["answer_relevancy"], ev.threshold)

ChatbotFinish(res, ev) ==
    LET avg == [k \in Range(ChatbotMetrics) |-> calculate_average_score(res.scores[k])]
    IN  res @@ [average |-> avg,
                passed |-> ChatbotPassed(ev, res, avg),
                critical_failure |-> has_toxic_content(res)]

----------------------------------------------------------------------------
(* State after the components of run_*_evaluation are constructed. *)

SettingsSpace ==
    [default_threshold : Thresholds, toxicity_threshold : ToxicityThresholds,
     save_json : BOOLEAN, save_html : BOOLEAN]

(* RAGEvaluator / AgentEvaluator / ChatbotEvaluator __init__ *)
NewEvaluator(sys, st) ==
    IF sys = "chatbot"
    THEN [threshold |-> st.default_threshold, toxicity_threshold |-> st.toxicity_threshold]
    ELSE [threshold |-> st.default_threshold]

(* Nothing evaluated, reported or returned yet. *)
InitRunState ==
    /\ test_cases = <<>>
    /\ idx = 0
    /\ pos = 0
    /\ results = <<>>
    /\ judge_calls = <<>>
    /\ exit_code = NoCode
    /\ judge_memo = {}
    /\ first_results = <<>>
    /\ perm = <<>>
    /\ reports = {}
    /\ calls = 0
    /\ docs = NoDocs
    /\ ran = <<>>
    /\ exit_codes = <<>>
    /\ main_status = NoCode
    /\ validation = NoDoc

InitCommon ==
    /\ evaluator = NewEvaluator(system, settings)
    /\ metric_obj = [k \in Range(MetricsOf(system)) |-> NoMeasure]
    /\ local = [k \in Range(MetricsOf(system)) |-> NoCode]
    /\ pc = "start"
    /\ InitRunState

(* One run_*_evaluation, entered with the key valid, the directories made   *)
(* and no threshold option.                                                 *)
InitOneRun ==
    /\ selection = system
    /\ gemini_api_key = "key"
    /\ arg_threshold = NoCode
    /\ dirs_created = TRUE
    /\ InitCommon

Init ==
    /\ system \in {"rag", "agent", "chatbot"}
    /\ settings \in SettingsSpace
    /\ dataset \in DataFiles
    /\ repeatable = FALSE
    /\ InitOneRun

----------------------------------------------------------------------------
(* evaluate: entry, one step per judge call, and the judge failing. *)

(* The evaluator class of each system type. *)
ResultsInitOf(sys, cases) ==
    CASE sys = "rag" -> RAGResultsInit(cases)
      [] sys = "agent" -> AgentResultsInit(cases)
      [] sys = "chatbot" -> ChatbotResultsInit(cases)

StoreOf(sys, res, ev, id, case, loc, mobj) ==
    CASE sys = "rag" -> RAGStore(res, ev, id, case, loc, mobj)
      [] sys = "agent" -> AgentStore(res, ev, id, case, loc, mobj)
      [] sys = "chatbot" -> ChatbotStore(res, ev, id, case, loc, mobj)

FinishOf(sys, res, ev) ==
    CASE sys = "rag" -> RAGFinish(res, ev)
      [] sys = "agent" -> AgentFinish(res, ev)
      [] sys = "chatbot" -> ChatbotFinish(res, ev)

EvaluateEnterKeepsResults(sys, cases) ==
    /\ test_cases' = cases
    /\ calls' = calls + 1
    /\ IF cases = <<>>
       THEN /\ results' = FinishOf(sys, ResultsInitOf(sys, cases), evaluator)
            /\ pc' = "evaluated"
            /\ idx' = 0
            /\ pos' = 0
       ELSE /\ results' = IF calls = 0 THEN ResultsInitOf(sys, cases)
                          ELSE [results EXCEPT !.total_cases = Len(cases)]
            /\ pc' = "measuring"
            /\ idx' = 1
            /\ pos' = 1

(* evaluate is entered: a new results dictionary with empty lists. *)
EvaluateEnter(sys, cases) ==
    /\ test_cases' = cases
    /\ calls' = calls + 1
    /\ IF cases = <<>>
       THEN /\ results' = FinishOf(sys, ResultsInitOf(sys, cases), evaluator)
            /\ pc' = "evaluated"
            /\ idx' = 0
            /\ pos' = 0
       ELSE /\ results' = ResultsInitOf(sys, cases)
            /\ pc' = "measuring"
            /\ idx' = 1
            /\ pos' = 1

(* May the judge answer `score` for metric k on this case? *)
JudgeMayAnswer(k, case, score) ==
    /\ score \in JudgeScores(k)
    /\ repeatable => \A t \in judge_memo : (t[1] = k /\ t[2] = case) => t[3] = score

(* metric.measure(llm_test_case) returns: the metric object holds the score,  *)
(* evaluate reads it into its local, and runs on to the next judge call or    *)
(* to its return.                                                             *)
MeasureStep(sys, score, success) ==
    LET metrics == MetricsOf(sys)
        k == metrics[pos]
        case == test_cases[idx]
        mobj == [metric_obj EXCEPT ![k] = [score |-> score,
                                           reason |-> Reason(k, case, score),
                                           success |-> success]]
        loc == [local EXCEPT ![k] = mobj[k].score]
        stored == StoreOf(sys, results, evaluator, idx - 1, case, loc, mobj)
    IN  /\ pc = "measuring"
        /\ system = sys
        /\ JudgeMayAnswer(k, case, score)
        /\ metric_obj' = mobj
        /\ local' = loc
        /\ judge_calls' = Append(judge_calls,
                                 [metric |-> k, case |-> idx - 1, outcome |-> "score"])
        /\ judge_memo' = IF repeatable THEN judge_memo \cup {<<k, case, score>>}
                         ELSE judge_memo
        /\ IF pos < Len(metrics)
           THEN /\ pos' = pos + 1
                /\ UNCHANGED <<idx, results, pc>>
           ELSE IF idx < Len(test_cases)
           THEN /\ pos' = 1
                /\ idx' = idx + 1
                /\ results' = stored
                /\ UNCHANGED pc
           ELSE /\ results' = FinishOf(sys, stored, evaluator)
                /\ pc' = "evaluated"
                /\ UNCHANGED <<idx, pos>>
        /\ UNCHANGED <<system, settings, dataset, evaluator, test_cases, exit_code,
                       repeatable, first_results, perm, reports, calls, docs, ran,
                       main_vars,
                       validation>>

RAGMeasure ==
    \E score \in QualityScores, success \in BOOLEAN :
        MeasureStep("rag", score, success)

AgentMeasure ==
    \E score \in QualityScores, success \in BOOLEAN :
        MeasureStep("agent", score, success)

ChatbotMeasure ==
    \E score \in QualityScores \cup ToxicityScores, success \in BOOLEAN :
        MeasureStep("chatbot", score, success)

JudgeRaisesRetried ==
    /\ pc = "measuring"
    /\ judge_calls' = Append(judge_calls,
                             [metric |-> MetricsOf(system)[pos], case |-> idx - 1,
                              outcome |-> "raise"])
    /\ UNCHANGED <<system, settings, dataset, evaluator, metric_obj, test_cases, idx,
                   pos, local, results, exit_code, judge_memo, repeatable,
                   first_results, perm, reports, calls, pc, docs, ran, main_vars,
                       validation>>

(* metric.measure raises: evaluate has no handler, the exception leaves it. *)
JudgeRaises ==
    /\ pc = "measuring"
    /\ judge_calls' = Append(judge_calls,
                             [metric |-> MetricsOf(system)[pos], case |-> idx - 1,
                              outcome |-> "raise"])
    /\ pc' = "raised"
    /\ UNCHANGED <<system, settings, dataset, evaluator, metric_obj, test_cases, idx,
                   pos, local, results, exit_code, judge_memo, repeatable,
                   first_results, perm, reports, calls, docs, ran, main_vars,
                       validation>>

----------------------------------------------------------------------------
(* Reports.  Each call is modelled by what it renders (out) and by the       *)
(* dictionary it was handed, as the call leaves it (results).                *)

StatusLine(res) == IF res.passed THEN "PASSED" ELSE "FAILED"

(* RAGEvaluator.generate_report *)
RAGGenerateReport(res) ==
    [title |-> "RAG SYSTEM EVALUATION REPORT",
     total_cases |-> res.total_cases,
     averages |-> [j \in 1..Len(RAGMetrics) |-> res.average[RAGMetrics[j]]],
     overall_average |-> res.overall_average,
     status |-> StatusLine(res)]

(* AgentEvaluator.generate_report *)
AgentGenerateReport(res) ==
    [title |-> "AGENT SYSTEM EVALUATION REPORT",
     total_cases |-> res.total_cases,
     averages |-> [j \in 1..Len(AgentMetrics) |-> res.average[AgentMetrics[j]]],
     overall_average |-> res.overall_average,
     status |-> StatusLine(res)]

(* ChatbotEvaluator.generate_report *)
ChatbotGenerateReport(res) ==
    [title |-> "CHATBOT SYSTEM EVALUATION REPORT",
     total_cases |-> res.total_cases,
     averages |-> [j \in 1..Len(ChatbotMetrics) |-> res.average[ChatbotMetrics[j]]],
     toxic_cases |-> [j \in 1..Len(res.toxic_cases) |->
                        [test_case_id |-> res.toxic_cases[j].test_case_id,
                         toxicity_score |-> res.toxic_cases[j].toxicity_score,
                         input |-> res.toxic_cases[j].input,
                         reason |-> res.toxic_cases[j].reason]],
     status |-> StatusLine(res),
     critical |-> res.critical_failure]

generate_report_clears_toxic_cases(sys, res) ==
    [out |-> CASE sys = "rag" -> RAGGenerateReport(res)
               [] sys = "agent" -> AgentGenerateReport(res)
               [] sys = "chatbot" -> ChatbotGenerateReport(res),
     results |-> IF sys = "chatbot" THEN [res EXCEPT !.toxic_cases = <<>>] ELSE res]

generate_report(sys, res) ==
    [out |-> CASE sys = "rag" -> RAGGenerateReport(res)
               [] sys = "agent" -> AgentGenerateReport(res)
               [] sys = "chatbot" -> ChatbotGenerateReport(res),
     results |-> res]

(* json.dump writes a Python bool as the literal true or false; numbers,     *)
(* strings and lists keep their value and their order.                       *)
JsonBool(b) == IF b THEN "true" ELSE "false"

MetricNames ==
    Range(RAGMetrics) \cup Range(AgentMetrics) \cup Range(ChatbotMetrics)

JsonCase(case) ==
    [f \in DOMAIN case |->
        IF f \in MetricNames
        THEN [g \in DOMAIN case[f] |->
                IF g = "passed" THEN JsonBool(case[f][g]) ELSE case[f][g]]
        ELSE case[f]]

json_dump_passed_as_text(res) ==
    [f \in DOMAIN res |->
        CASE f \in {"passed", "critical_failure"} ->
                (IF res[f] THEN "True" ELSE "False")
          [] f = "individual_results" ->
                [j \in 1..Len(res[f]) |-> JsonCase(res[f][j])]
          [] OTHER -> res[f]]

json_dump(res) ==
    [f \in DOMAIN res |->
        CASE f \in {"passed", "critical_failure"} -> JsonBool(res[f])
          [] f = "individual_results" ->
                [j \in 1..Len(res[f]) |-> JsonCase(res[f][j])]
          [] OTHER -> res[f]]

(* Reading the artifact back: the literals true and false become bools again, *)
(* every other value is read as it was written.                              *)
JsonLoadBool(t) == t = "true"

JsonLoadCase(case) ==
    [f \in DOMAIN case |->
        IF f \in MetricNames
        THEN [g \in DOMAIN case[f] |->
                IF g = "passed" THEN JsonLoadBool(case[f][g]) ELSE case[f][g]]
        ELSE case[f]]

json_load(doc) ==
    [f \in DOMAIN doc |->
        CASE f \in {"passed", "critical_failure"} -> JsonLoadBool(doc[f])
          [] f = "individual_results" ->
                [j \in 1..Len(doc[f]) |-> JsonLoadCase(doc[f][j])]
          [] OTHER -> doc[f]]

(* ReportGenerator.save_json_report *)
save_json_report(res, system_type) ==
    [out |-> json_dump(res), results |-> res]

(* The metric lists of ReportGenerator._get_metric_cells. *)
CellMetrics(system_type) ==
    CASE system_type = "rag" -> <<"faithfulness", "contextual_recall", "answer_relevancy">>
      [] system_type = "agent" -> <<"correctness", "answer_relevancy">>
      [] system_type = "chatbot" -> <<"toxicity", "answer_relevancy">>
      [] OTHER -> <<>>

(* One <td>: case.get(metric, {}).get("score", 0) and .get("passed", False). *)
MetricCellFromScore(case, metric) ==
    LET data == IF metric \in DOMAIN case THEN case[metric] ELSE [none |-> TRUE]
        score == IF "score" \in DOMAIN data THEN data.score ELSE 0
    IN  [metric |-> metric,
         css_class |-> IF score >= 7 THEN "pass" ELSE "fail",
         score |-> score]

MetricCell(case, metric) ==
    LET data == IF metric \in DOMAIN case THEN case[metric] ELSE [none |-> TRUE]
        score == IF "score" \in DOMAIN data THEN data.score ELSE 0
        passed == IF "passed" \in DOMAIN data THEN data.passed ELSE FALSE
    IN  [metric |-> metric,
         css_class |-> IF passed THEN "pass" ELSE "fail",
         score |-> score]

(* ReportGenerator._get_metric_cells *)
get_metric_cells(case, system_type) ==
    [j \in 1..Len(CellMetrics(system_type)) |->
        MetricCell(case, CellMetrics(system_type)[j])]

(* ReportGenerator._generate_case_rows *)
generate_case_rows(res, system_type) ==
    LET cases == IF "individual_results" \in DOMAIN res
                 THEN res.individual_results ELSE <<>>
    IN  [j \in 1..Len(cases) |->
            [test_id |-> cases[j].test_case_id,
             input |-> cases[j].input,
             cells |-> get_metric_cells(cases[j], system_type)]]

WarningItem(c) == [test_case_id |-> c.test_case_id, toxicity_score |-> c.toxicity_score]

generate_warnings_first_only(res, system_type) ==
    IF system_type = "chatbot"
       /\ (IF "critical_failure" \in DOMAIN res THEN res.critical_failure ELSE FALSE)
    THEN LET toxic_cases == IF "toxic_cases" \in DOMAIN res THEN res.toxic_cases ELSE <<>>
         IN  <<[count |-> Len(toxic_cases),
                items |-> [j \in 1..1 |-> WarningItem(toxic_cases[j])]]>>
    ELSE <<>>

(* ReportGenerator._generate_warnings: the list of critical blocks. *)
generate_warnings(res, system_type) ==
    IF system_type = "chatbot"
       /\ (IF "critical_failure" \in DOMAIN res THEN res.critical_failure ELSE FALSE)
    THEN LET toxic_cases == IF "toxic_cases" \in DOMAIN res THEN res.toxic_cases ELSE <<>>
         IN  <<[count |-> Len(toxic_cases),
                items |-> [j \in 1..Len(toxic_cases) |-> WarningItem(toxic_cases[j])]]>>
    ELSE <<>>

(* ReportGenerator._generate_html *)
generate_html(res, system_type) ==
    [status_text |-> IF (IF "passed" \in DOMAIN res THEN res.passed ELSE FALSE)
                     THEN "pass" ELSE "fail",
     total_cases |-> IF "total_cases" \in DOMAIN res THEN res.total_cases ELSE 0,
     warnings |-> generate_warnings(res, system_type),
     case_rows |-> generate_case_rows(res, system_type)]

(* ReportGenerator.save_html_report *)
save_html_report(res, system_type) ==
    [out |-> generate_html(res, system_type), results |-> res]

----------------------------------------------------------------------------
(* run_rag_evaluation / run_agent_evaluation / run_chatbot_evaluation *)

(* The status each run function returns for the results of evaluate. *)
run_rag_evaluation_status(res) == IF res.passed THEN 0 ELSE 1

run_agent_evaluation_status(res) == IF res.passed THEN 0 ELSE 1

run_chatbot_evaluation_status(res) ==
    IF (IF "critical_failure" \in DOMAIN res THEN res.critical_failure ELSE FALSE)
    THEN 1
    ELSE IF res.passed THEN 0 ELSE 1

StatusOf(sys, res) ==
    CASE sys = "rag" -> run_rag_evaluation_status(res)
      [] sys = "agent" -> run_agent_evaluation_status(res)
      [] sys = "chatbot" -> run_chatbot_evaluation_status(res)

(* Enter the run, load the dataset and call evaluate; an exception of the *)
(* loader leaves the run.                                                 *)
RunLoad(sys) ==
    LET loaded == LoadOf(sys, dataset)
    IN  /\ pc = "start"
        /\ system = sys
        /\ ran' = Append(ran, sys)
        /\ IF loaded.raised
           THEN /\ pc' = "raised"
                /\ UNCHANGED <<test_cases, calls, results, idx, pos>>
           ELSE EvaluateEnter(sys, loaded.cases)
        /\ UNCHANGED <<system, settings, dataset, evaluator, metric_obj, local,
                       judge_calls, exit_code, judge_memo, repeatable, first_results,
                       perm, reports, docs, main_vars,
                       validation>>

run_rag_evaluation_load == RunLoad("rag")

run_agent_evaluation_load == RunLoad("agent")

run_chatbot_evaluation_load == RunLoad("chatbot")

SavedReportsAlways(st) == {"json", "html"}

SavedReports(st) ==
    (IF st.save_json THEN {"json"} ELSE {}) \cup (IF st.save_html THEN {"html"} ELSE {})

(* The body shared by the three run_*_evaluation functions after evaluate    *)
(* returned: print the text report, save the enabled artifacts, in that      *)
(* order, each call being handed the dictionary as the call before left it.  *)
RunReport(sys) ==
    LET text == generate_report(sys, results)
        json == IF settings.save_json
                THEN save_json_report(text.results, sys)
                ELSE [out |-> docs.json, results |-> text.results]
        html == IF settings.save_html
                THEN save_html_report(json.results, sys)
                ELSE [out |-> docs.html, results |-> json.results]
    IN  /\ pc = "evaluated"
        /\ system = sys
        /\ docs' = [text |-> text.out, json |-> json.out, html |-> html.out]
        /\ results' = html.results
        /\ reports' = reports \cup {<<sys, kind>> : kind \in SavedReports(settings)}
        /\ exit_code' = StatusOf(sys, html.results)
        /\ pc' = "done"
        /\ UNCHANGED <<system, settings, dataset, evaluator, metric_obj, test_cases,
                       idx, pos, local, judge_calls, judge_memo, repeatable,
                       first_results, perm, calls, ran, main_vars,
                       validation>>

(* Writing an artifact fails (open or write raises): the exception leaves    *)
(* the run function.  The JSON artifact is written first, so when the HTML   *)
(* write is the one that fails an enabled JSON artifact is already on disk.  *)
ReportSaveRaises ==
    LET text == generate_report(system, results)
    IN  /\ pc = "evaluated"
        /\ \E failing \in SavedReports(settings) :
              IF failing = "html" /\ settings.save_json
              THEN LET json == save_json_report(text.results, system)
                   IN  /\ docs' = [text |-> text.out, json |-> json.out, html |-> docs.html]
                       /\ results' = json.results
                       /\ reports' = reports \cup {<<system, "json">>}
              ELSE /\ docs' = [docs EXCEPT !.text = text.out]
                   /\ results' = text.results
                   /\ UNCHANGED reports
        /\ pc' = "raised"
        /\ UNCHANGED <<system, settings, dataset, evaluator, metric_obj, test_cases,
                       idx, pos, local, judge_calls, exit_code, judge_memo, repeatable,
                       first_results, perm, calls, ran, main_vars, validation>>

run_rag_evaluation_report == RunReport("rag")

run_agent_evaluation_report == RunReport("agent")

run_chatbot_evaluation_report == RunReport("chatbot")

Next ==
    \/ run_rag_evaluation_load
    \/ run_agent_evaluation_load
    \/ run_chatbot_evaluation_load
    \/ RAGMeasure
    \/ AgentMeasure
    \/ ChatbotMeasure
    \/ JudgeRaises
    \/ run_rag_evaluation_report
    \/ run_agent_evaluation_report
    \/ run_chatbot_evaluation_report
    \/ ReportSaveRaises

Spec == Init /\ [][Next]_vars

----------------------------------------------------------------------------
(* A session that calls evaluate twice on one evaluator, the second time on   *)
(* a permutation of the case list, against a judge that repeats its scores.   *)

InitPerm ==
    /\ system \in {"rag", "agent", "chatbot"}
    /\ settings \in {st \in SettingsSpace : st.save_json /\ st.save_html}
    /\ system # "chatbot" => settings.toxicity_threshold = 0
    /\ dataset \in {[test_cases |-> ValidDataset(n)] : n \in 0..MaxCases}
    /\ repeatable = TRUE
    /\ InitOneRun

Permuted(cases, p) == [j \in 1..Len(cases) |-> cases[p[j]]]

Perms(n) == {p \in [1..n -> 1..n] : \A a, b \in 1..n : a # b => p[a] # p[b]}

EvaluatePermuted ==
    /\ pc = "evaluated"
    /\ calls = 1
    /\ \E p \in Perms(Len(test_cases)) :
          /\ perm' = p
          /\ first_results' = results
          /\ EvaluateEnter(system, Permuted(test_cases, p))
    /\ UNCHANGED <<system, settings, dataset, evaluator, metric_obj, local, judge_calls,
                   exit_code, judge_memo, repeatable, reports, docs, ran, main_vars,
                       validation>>

NextPerm ==
    \/ run_rag_evaluation_load
    \/ run_agent_evaluation_load
    \/ run_chatbot_evaluation_load
    \/ RAGMeasure
    \/ AgentMeasure
    \/ ChatbotMeasure
    \/ JudgeRaises
    \/ EvaluatePermuted

SpecPerm == InitPerm /\ [][NextPerm]_vars

----------------------------------------------------------------------------
(* A session that, once evaluate has returned, calls generate_report,        *)
(* save_json_report and save_html_report on the returned dictionary in any   *)
(* order and any number of times, as the tests do.                           *)

InitReport ==
    /\ system \in {"rag", "agent", "chatbot"}
    /\ settings \in {st \in SettingsSpace :
                        st.save_json /\ st.save_html /\ st.default_threshold = 7}
    /\ system # "chatbot" => settings.toxicity_threshold = 0
    /\ dataset \in {[test_cases |-> ValidDataset(n)] : n \in 0..MaxCases}
    /\ repeatable = FALSE
    /\ InitOneRun

generate_report_call ==
    LET call == generate_report(system, results)
    IN  /\ pc = "evaluated"
        /\ docs' = [docs EXCEPT !.text = call.out]
        /\ results' = call.results
        /\ UNCHANGED <<system, settings, dataset, evaluator, metric_obj, test_cases,
                       idx, pos, local, judge_calls, pc, exit_code, judge_memo,
                       repeatable, first_results, perm, reports, calls, ran, main_vars,
                       validation>>

save_json_report_call ==
    LET call == save_json_report(results, system)
    IN  /\ pc = "evaluated"
        /\ docs' = [docs EXCEPT !.json = call.out]
        /\ results' = call.results
        /\ reports' = reports \cup {<<system, "json">>}
        /\ UNCHANGED <<system, settings, dataset, evaluator, metric_obj, test_cases,
                       idx, pos, local, judge_calls, pc, exit_code, judge_memo,
                       repeatable, first_results, perm, calls, ran, main_vars,
                       validation>>

save_html_report_call ==
    LET call == save_html_report(results, system)
    IN  /\ pc = "evaluated"
        /\ docs' = [docs EXCEPT !.html = call.out]
        /\ results' = call.results
        /\ reports' = reports \cup {<<system, "html">>}
        /\ UNCHANGED <<system, settings, dataset, evaluator, metric_obj, test_cases,
                       idx, pos, local, judge_calls, pc, exit_code, judge_memo,
                       repeatable, first_results, perm, calls, ran, main_vars,
                       validation>>

NextReport ==
    \/ run_rag_evaluation_load
    \/ run_agent_evaluation_load
    \/ run_chatbot_evaluation_load
    \/ RAGMeasure
    \/ AgentMeasure
    \/ ChatbotMeasure
    \/ JudgeRaises
    \/ generate_report_call
    \/ save_json_report_call
    \/ save_html_report_call

SpecReport == InitReport /\ [][NextReport]_vars

----------------------------------------------------------------------------
(* A session that calls evaluate a second time on the same evaluator, on any *)
(* case list, after the first call returned or aborted on a judge failure,   *)
(* against a judge that repeats its scores.                                  *)

InitSession ==
    /\ system \in {"rag", "agent", "chatbot"}
    /\ settings \in {st \in SettingsSpace :
                        /\ st.default_threshold = 7
                        /\ st.toxicity_threshold = 0
                        /\ st.save_json
                        /\ st.save_html}
    /\ dataset \in {[test_cases |-> ValidDataset(n)] : n \in 0..MaxCases}
    /\ repeatable = TRUE
    /\ InitOneRun

Reversed(cases) == [j \in 1..Len(cases) |-> cases[Len(cases) + 1 - j]]

(* Case lists of the second call: as loaded for this system type. *)
SessionLists(sys) ==
    LET all == LoadOf(sys, [test_cases |-> ValidDataset(MaxCases)]).cases
    IN  {SubSeq(all, 1, n) : n \in 0..MaxCases}
        \cup {Reversed(all), <<all[MaxCases]>>}

EvaluateAgain ==
    /\ pc \in {"evaluated", "raised"}
    /\ calls = 1
    /\ first_results' = results
    /\ \E cases \in SessionLists(system) : EvaluateEnter(system, cases)
    /\ UNCHANGED <<system, settings, dataset, evaluator, metric_obj, local, judge_calls,
                   exit_code, judge_memo, repeatable, perm, reports, docs, ran, main_vars,
                   validation>>

NextSession ==
    \/ run_rag_evaluation_load
    \/ run_agent_evaluation_load
    \/ run_chatbot_evaluation_load
    \/ RAGMeasure
    \/ AgentMeasure
    \/ ChatbotMeasure
    \/ JudgeRaises
    \/ EvaluateAgain

SpecSession == InitSession /\ [][NextSession]_vars

----------------------------------------------------------------------------
(* main and run_all_evaluations *)

Selections == {"rag", "agent", "chatbot", "all"}

ApiKeys == {"", "your_api_key_here", "key"}

(* args.threshold: absent, 0.0 or 0.9 *)
ArgThresholds == {NoCode, 0, 9}

InitMain ==
    /\ selection \in Selections
    /\ gemini_api_key \in ApiKeys
    /\ arg_threshold \in ArgThresholds
    /\ settings \in {st \in SettingsSpace :
                        /\ st.default_threshold = 7
                        /\ st.toxicity_threshold = 0
                        /\ st.save_json
                        /\ st.save_html}
    /\ dirs_created = FALSE
    /\ system = "none"
    /\ dataset = [test_cases |-> <<>>]
    /\ evaluator = <<>>
    /\ metric_obj = <<>>
    /\ local = <<>>
    /\ pc = "main"
    /\ repeatable = FALSE
    /\ InitRunState

validate_api_key_accepts_placeholder(key) == key # ""

(* Settings.validate_api_key: TRUE when it does not raise. *)
validate_api_key(key) == key # "" /\ key # "your_api_key_here"

(* `if args.threshold: settings.default_threshold = args.threshold` *)
ThresholdOverride(st, arg) ==
    IF arg # NoCode /\ arg # 0 THEN [st EXCEPT !.default_threshold = arg] ELSE st

(* The order in which run_all_evaluations calls the three run functions. *)
RunAllOrder == <<"rag", "agent", "chatbot">>

DispatchTargetAgentRunsRAG(sel) ==
    IF sel = "all" THEN RunAllOrder[1] ELSE IF sel = "agent" THEN "rag" ELSE sel

(* The run function main's if/elif chain enters first for a selection. *)
DispatchTarget(sel) == IF sel = "all" THEN RunAllOrder[1] ELSE sel

run_all_evaluations_status_last(codes) == codes[Len(codes)]

(* return max(exit_codes) *)
run_all_evaluations_status(codes) ==
    CHOOSE c \in Range(codes) : \A d \in Range(codes) : c >= d

(* The dataset files a run started by main may find. *)
MainFiles ==
    {[test_cases |-> ValidDataset(n)] : n \in 0..MaxCases}
    \cup {NoCollectionFile, [test_cases |-> <<Without(ValidCase(1), "input")>>]}

(* A run function starts: it constructs its components from the settings and *)
(* finds its dataset file with some content.                                 *)
StartRun(sys, st) ==
    /\ system' = sys
    /\ evaluator' = NewEvaluator(sys, st)
    /\ metric_obj' = [k \in Range(MetricsOf(sys)) |-> NoMeasure]
    /\ local' = [k \in Range(MetricsOf(sys)) |-> NoCode]
    /\ dataset' \in MainFiles
    /\ test_cases' = <<>>
    /\ idx' = 0
    /\ pos' = 0
    /\ results' = <<>>
    /\ judge_calls' = <<>>
    /\ exit_code' = NoCode
    /\ calls' = 0
    /\ docs' = NoDocs
    /\ pc' = "start"

(* main up to the call of the selected run function *)
main_start ==
    /\ pc = "main"
    /\ IF ~validate_api_key(gemini_api_key)
       THEN /\ main_status' = 1
            /\ pc' = "returned"
            /\ UNCHANGED <<system, settings, dataset, evaluator, metric_obj, test_cases,
                           idx, pos, local, results, judge_calls, exit_code, calls,
                           docs, dirs_created>>
       ELSE /\ dirs_created' = TRUE
            /\ settings' = ThresholdOverride(settings, arg_threshold)
            /\ StartRun(DispatchTarget(selection),
                        ThresholdOverride(settings, arg_threshold))
            /\ UNCHANGED main_status
    /\ UNCHANGED <<judge_memo, repeatable, first_results, perm, reports, ran,
                   selection, gemini_api_key, arg_threshold, exit_codes,
                   validation>>

(* A single selected run returned or raised: main returns. *)
main_return ==
    /\ selection # "all"
    /\ pc \in {"done", "raised"}
    /\ main_status' = IF pc = "done" THEN exit_code ELSE 1
    /\ pc' = "returned"
    /\ UNCHANGED <<system, settings, dataset, evaluator, metric_obj, test_cases, idx,
                   pos, local, results, judge_calls, exit_code, judge_memo, repeatable,
                   first_results, perm, reports, calls, docs, ran, selection,
                   gemini_api_key, arg_threshold, dirs_created, exit_codes,
                   validation>>

(* run_all_evaluations after one of its run functions returned or raised:    *)
(* record the status, then call the next run function or return.             *)
run_all_evaluations_next ==
    LET codes == Append(exit_codes, IF pc = "done" THEN exit_code ELSE 1)
    IN  /\ selection = "all"
        /\ pc \in {"done", "raised"}
        /\ exit_codes' = codes
        /\ IF Len(codes) < Len(RunAllOrder)
           THEN /\ StartRun(RunAllOrder[Len(codes) + 1], settings)
                /\ UNCHANGED main_status
           ELSE /\ main_status' = run_all_evaluations_status(codes)
                /\ pc' = "returned"
                /\ UNCHANGED <<system, dataset, evaluator, metric_obj, test_cases, idx,
                               pos, local, results, judge_calls, exit_code, calls, docs>>
        /\ UNCHANGED <<settings, judge_memo, repeatable, first_results, perm, reports,
                       ran, selection, gemini_api_key, arg_threshold, dirs_created,
                       validation>>

KeyboardInterruptAsError ==
    /\ pc \in {"start", "measuring", "evaluated"}
    /\ main_status' = 1
    /\ pc' = "returned"
    /\ UNCHANGED <<system, settings, dataset, evaluator, metric_obj, test_cases, idx,
                   pos, local, results, judge_calls, exit_code, judge_memo, repeatable,
                   first_results, perm, reports, calls, docs, ran, selection,
                   gemini_api_key, arg_threshold, dirs_created, exit_codes,
                   validation>>

(* Ctrl-C while a run function executes: no `except Exception` catches it,   *)
(* main's KeyboardInterrupt handler returns 130.                             *)
KeyboardInterrupt ==
    /\ pc \in {"start", "measuring", "evaluated"}
    /\ main_status' = 130
    /\ pc' = "returned"
    /\ UNCHANGED <<system, settings, dataset, evaluator, metric_obj, test_cases, idx,
                   pos, local, results, judge_calls, exit_code, judge_memo, repeatable,
                   first_results, perm, reports, calls, docs, ran, selection,
                   gemini_api_key, arg_threshold, dirs_created, exit_codes,
                   validation>>

NextMain ==
    \/ main_start
    \/ run_rag_evaluation_load
    \/ run_agent_evaluation_load
    \/ run_chatbot_evaluation_load
    \/ RAGMeasure
    \/ AgentMeasure
    \/ ChatbotMeasure
    \/ JudgeRaises
    \/ run_rag_evaluation_report
    \/ run_agent_evaluation_report
    \/ run_chatbot_evaluation_report
    \/ ReportSaveRaises
    \/ main_return
    \/ run_all_evaluations_next
    \/ KeyboardInterrupt

SpecMain == InitMain /\ [][NextMain]_vars

----------------------------------------------------------------------------
(* A caller that loads a dataset file and hands the case list to             *)
(* DatasetLoader.validate_dataset.                                           *)

BlankCase(j) == [ValidCase(j) EXCEPT !.input = "", !.actual_output = ""]

(* Case lists of up to MaxCases elements, each element with or without an    *)
(* empty input and with or without an empty actual_output.                   *)
ValidateLists ==
    UNION {[1..n -> {"valid", "input", "output", "both"}] : n \in 0..MaxCases}

ValidateFile(kinds) ==
    [test_cases |->
        [j \in 1..Len(kinds) |->
            CASE kinds[j] = "valid" -> ValidCase(j)
              [] kinds[j] = "input" -> [ValidCase(j) EXCEPT !.input = ""]
              [] kinds[j] = "output" -> BlankOutputCase(j)
              [] kinds[j] = "both" -> BlankCase(j)]]

InitValidate ==
    /\ system \in {"rag", "agent", "chatbot"}
    /\ settings \in {st \in SettingsSpace :
                        /\ st.default_threshold = 7
                        /\ st.toxicity_threshold = 0
                        /\ st.save_json
                        /\ st.save_html}
    /\ dataset \in {ValidateFile(kinds) : kinds \in ValidateLists}
    /\ repeatable = FALSE
    /\ InitOneRun

validate_dataset_call ==
    LET loaded == LoadOf(system, dataset)
    IN  /\ pc = "start"
        /\ ~loaded.raised
        /\ test_cases' = loaded.cases
        /\ validation' = validate_dataset(loaded.cases)
        /\ pc' = "validated"
        /\ UNCHANGED <<system, settings, dataset, evaluator, metric_obj, idx, pos,
                       local, results, judge_calls, exit_code, judge_memo, repeatable,
                       first_results, perm, reports, calls, docs, ran, main_vars>>

NextValidate == validate_dataset_call

SpecValidate == InitValidate /\ [][NextValidate]_vars

----------------------------------------------------------------------------
(* Properties *)

Finished == pc \in {"evaluated", "done"}

RECURSIVE AddUp(_, _)
AddUp(s, n) == IF n = 0 THEN 0 ELSE s[n] + AddUp(s, n - 1)

Total(s) == AddUp(s, Len(s))

(* mean(s) >= t, with mean(<<>>) = 0 *)
MeanAtLeast(s, t) == IF Len(s) = 0 THEN 0 >= t ELSE Total(s) >= t * Len(s)

RECURSIVE Pooled(_, _, _)
Pooled(scores, metrics, n) ==
    IF n = 0 THEN <<>> ELSE Pooled(scores, metrics, n - 1) \o scores[metrics[n]]

AllScores(res) == Pooled(res.scores, MetricsOf(system), Len(MetricsOf(system)))

\* C1: for RAG and Agent, passed is true exactly when the pooled mean of all
\* scores of all metrics is >= threshold and every per-metric average is
\* >= threshold.
C1_VerdictPooledAndEachMetric ==
    (Finished /\ system \in {"rag", "agent"}) =>
        (results.passed <=>
            /\ MeanAtLeast(AllScores(results), evaluator.threshold)
            /\ \A k \in Range(MetricsOf(system)) :
                  MeanAtLeast(results.scores[k], evaluator.threshold))

(* averages 0.9 / 0.9 / 0.5 against 0.7: pooled mean above, one metric below *)
C1_Witness ==
    /\ pc = "evaluated"
    /\ system = "rag"
    /\ evaluator.threshold = 7
    /\ results.scores["faithfulness"] = <<9>>
    /\ results.scores["contextual_recall"] = <<9>>
    /\ results.scores["answer_relevancy"] = <<5>>
    /\ MeanAtLeast(AllScores(results), 7)
    /\ results.passed = FALSE

ToxicCount(res) ==
    Cardinality({j \in 1..Len(res.scores["toxicity"]) :
                    res.scores["toxicity"][j] > evaluator.toxicity_threshold})

\* C2: for Chatbot, passed is true exactly when no case has a toxicity score
\* above toxicity_threshold and the answer-relevancy average is >= threshold;
\* critical_failure is true exactly when some case has such a score.  The
\* average toxicity plays no part.
C2_ChatbotVerdict ==
    (Finished /\ system = "chatbot") =>
        /\ results.passed <=>
              (ToxicCount(results) = 0
               /\ MeanAtLeast(results.scores["answer_relevancy"], evaluator.threshold))
        /\ results.critical_failure <=> (ToxicCount(results) > 0)

(* one toxic case among clean ones, average toxicity within the threshold, *)
(* best answer relevancy                                                   *)
C2_Witness ==
    /\ pc = "evaluated"
    /\ system = "chatbot"
    /\ results.scores["toxicity"] = <<0, 4>>
    /\ evaluator.toxicity_threshold = 2
    /\ results.scores["answer_relevancy"] = <<9, 9>>
    /\ results.critical_failure = TRUE
    /\ results.passed = FALSE

\* C3: toxic_cases holds exactly one entry for each case whose individual
\* result has toxicity.passed false and none for any other case, in strictly
\* increasing test_case_id.
C3_ToxicCasesMatchFailures ==
    (Finished /\ system = "chatbot") =>
        LET ir == results.individual_results
            tc == results.toxic_cases
            failing == {j \in 1..Len(ir) : ~ir[j].toxicity.passed}
        IN  /\ Len(tc) = Cardinality(failing)
            /\ \A j \in failing :
                  Cardinality({t \in 1..Len(tc) : tc[t].test_case_id = ir[j].test_case_id}) = 1
            /\ \A t \in 1..Len(tc) :
                  \E j \in failing : tc[t].test_case_id = ir[j].test_case_id
            /\ \A t \in 1..Len(tc) - 1 : tc[t].test_case_id < tc[t + 1].test_case_id

C3_Witness ==
    /\ pc = "evaluated"
    /\ system = "chatbot"
    /\ Len(results.toxic_cases) = 2
    /\ Len(results.individual_results) = 2

\* C4: each reported per-metric average is the arithmetic mean of that
\* metric's recorded score list, and the average of an empty list is 0.
C4_AverageIsMeanOfScores ==
    Finished =>
        \A k \in Range(MetricsOf(system)) :
            LET avg == results.average[k]
                sc == results.scores[k]
            IN  IF Len(sc) = 0
                THEN avg.num = 0 /\ avg.den > 0
                ELSE avg.den > 0 /\ avg.num * Len(sc) = Total(sc) * avg.den

C4_Witness ==
    /\ pc = "evaluated"
    /\ system = "agent"
    /\ results.scores["correctness"] = <<5, 9>>
    /\ results.average["correctness"].num = 14
    /\ results.average["correctness"].den = 2

SameValue(a, b) == a.num * b.den = b.num * a.den

C6_ThresholdItselfPasses ==
    /\ check_pass_threshold(evaluator, evaluator.threshold)
    /\ Finished =>
          \A j \in 1..Len(results.individual_results) :
              LET r == results.individual_results[j]
              IN  /\ \A k \in Range(MetricsOf(system)) \ {"toxicity"} :
                        r[k].score = evaluator.threshold => r[k].passed
                  /\ (system = "chatbot"
                      /\ r.toxicity.score = evaluator.toxicity_threshold) =>
                        /\ r.toxicity.passed
                        /\ \A t \in 1..Len(results.toxic_cases) :
                              results.toxic_cases[t].test_case_id # r.test_case_id

C6_Witness ==
    /\ pc = "evaluated"
    /\ system = "chatbot"
    /\ Len(results.individual_results) = 1
    /\ results.individual_results[1].toxicity.score = evaluator.toxicity_threshold
    /\ results.individual_results[1].answer_relevancy.score = evaluator.threshold
    /\ results.individual_results[1].answer_relevancy.passed
    /\ results.toxic_cases = <<>>

\* C7: every metric's passed flag in every individual result is determined by
\* its recorded score and the configured threshold alone: score >= threshold,
\* and score <= toxicity_threshold for toxicity; the judge's success flag
\* plays no part.
C7_PassedFromScoreAndThreshold ==
    Finished =>
        \A j \in 1..Len(results.individual_results) :
            \A k \in Range(MetricsOf(system)) :
                LET r == results.individual_results[j][k]
                IN  r.passed <=> IF k = "toxicity"
                                 THEN r.score <= evaluator.toxicity_threshold
                                 ELSE r.score >= evaluator.threshold

(* the judge called a below-threshold score a success, and the reverse *)
C7_Witness ==
    /\ pc = "evaluated"
    /\ system = "agent"
    /\ Len(results.individual_results) = 1
    /\ metric_obj["correctness"].success
    /\ ~results.individual_results[1].correctness.passed
    /\ ~metric_obj["answer_relevancy"].success
    /\ results.individual_results[1].answer_relevancy.passed

PolicyOrder ==
    [rag |-> <<"faithfulness", "contextual_recall", "answer_relevancy">>,
     agent |-> <<"correctness", "answer_relevancy">>,
     chatbot |-> <<"toxicity", "answer_relevancy">>]

\* C8: within one evaluate call the judge is invoked once per metric per case
\* (3 per RAG case, 2 per Agent case, 2 per Chatbot case), case by case in
\* input order and within a case in the policy's metric order.
C8_JudgeCallsSequential ==
    LET order == PolicyOrder[system]
        m == Len(order)
    IN  /\ \A j \in 1..Len(judge_calls) :
              /\ judge_calls[j].case = (j - 1) \div m
              /\ judge_calls[j].metric = order[((j - 1) % m) + 1]
        /\ Finished => Len(judge_calls) = m * Len(test_cases)

C8_Witness ==
    /\ pc = "evaluated"
    /\ system = "rag"
    /\ Len(test_cases) = 2
    /\ Len(judge_calls) = 6

\* C9: when a judge call raises, the error leaves evaluate: the failing call
\* is the last judge call, no score is recorded for the failing case in any
\* score list or individual result, no verdict is computed, and nothing is
\* returned or reported.
C9_JudgeFailurePropagates ==
    \A j \in 1..Len(judge_calls) :
        judge_calls[j].outcome = "raise" =>
            /\ j = Len(judge_calls)
            /\ pc = "raised"
            /\ \A k \in Range(MetricsOf(system)) :
                  Len(results.scores[k]) = judge_calls[j].case
            /\ Len(results.individual_results) = judge_calls[j].case
            /\ "passed" \notin DOMAIN results
            /\ exit_code = NoCode
            /\ reports = {}

(* the judge fails on the second metric of the second case *)
C9_Witness ==
    /\ pc = "raised"
    /\ idx = 2
    /\ pos = 2
    /\ Len(judge_calls) > 2
    /\ judge_calls[Len(judge_calls)].outcome = "raise"

\* C10: when the dataset is empty or a case has an empty input or
\* actual_output, the run raises before any judge call and produces no
\* verdict.
C10_ValidationBeforeJudge ==
    (~LoadOf(system, dataset).raised
        /\ ~validate_dataset(LoadOf(system, dataset).cases).ok) =>
        /\ judge_calls = <<>>
        /\ pc \in {"start", "raised"}
        /\ exit_code = NoCode

----------------------------------------------------------------------------
(* Loading *)

(* Does the file lack the "test_cases" collection, or an element of it a    *)
(* field that the case type of this system requires?                        *)
Malformed(sys, data) ==
    \/ "test_cases" \notin DOMAIN data
    \/ \E j \in 1..Len(data.test_cases) :
          \E f \in (CASE sys = "rag" -> RAGTestCase
                      [] sys = "agent" -> AgentTestCase
                      [] sys = "chatbot" -> ChatbotTestCase) :
             f \notin DOMAIN data.test_cases[j]

\* C11: a dataset file without the test_cases collection, or with an element
\* that lacks a required field of its system type, makes the load raise: the
\* run that entered the load has raised, evaluate was never entered and no
\* case list came back.
C11_MalformedFileIsLoadError ==
    (ran # <<>> /\ Malformed(system, dataset)) =>
        /\ pc = "raised"
        /\ calls = 0
        /\ test_cases = <<>>
        /\ judge_calls = <<>>

\* C12: evaluate on an empty case list returns normally with total_cases 0,
\* empty score lists and individual_results, every average (and the overall
\* average of RAG and Agent) 0.0, passed false for a threshold above 0, and
\* for the chatbot no toxic case and no critical failure.
C12_EmptyCaseListDegenerateResult ==
    (Finished /\ calls >= 1 /\ test_cases = <<>>) =>
        /\ results.total_cases = 0
        /\ results.individual_results = <<>>
        /\ \A k \in Range(MetricsOf(system)) :
              /\ results.scores[k] = <<>>
              /\ results.average[k].num = 0
        /\ system \in {"rag", "agent"} => results.overall_average.num = 0
        /\ evaluator.threshold > 0 => ~results.passed
        /\ system = "chatbot" =>
              /\ results.toxic_cases = <<>>
              /\ ~results.critical_failure

C12_Witness ==
    /\ pc = "done"
    /\ system = "chatbot"
    /\ dataset = [test_cases |-> <<>>]
    /\ calls = 1
    /\ results.total_cases = 0
    /\ exit_code = 1

\* C19: after evaluate returned for n cases, total_cases is n, there are n
\* individual results and n scores per metric, the i-th individual result
\* has test_case_id i (counted from 0, in input order) and its score for each
\* metric is the i-th entry of that metric's score list.
C19_ResultsIndexedByInputOrder ==
    (Finished /\ calls >= 1) =>
        LET n == Len(test_cases)
        IN  /\ results.total_cases = n
            /\ Len(results.individual_results) = n
            /\ \A k \in Range(MetricsOf(system)) : Len(results.scores[k]) = n
            /\ \A j \in 1..n :
                  /\ results.individual_results[j].test_case_id = j - 1
                  /\ results.individual_results[j].input = test_cases[j].input
                  /\ \A k \in Range(MetricsOf(system)) :
                        results.scores[k][j] = results.individual_results[j][k].score

C19_Witness ==
    /\ pc = "evaluated"
    /\ system = "rag"
    /\ Len(test_cases) = MaxCases
    /\ results.individual_results[MaxCases].test_case_id = MaxCases - 1
    /\ results.scores["faithfulness"][1] # results.scores["faithfulness"][MaxCases]

\* C20: what is recorded for metric k of case i is what the judge call for
\* (k, case i) produced: the recorded reason is the one the judge gave for
\* that metric on that case's input together with the recorded score, in the
\* individual results and in the chatbot's toxic cases, although one metric
\* object per kind is reused for every case.
C20_CaseResultFromItsOwnJudgeCalls ==
    calls >= 1 =>
        /\ \A j \in 1..Len(results.individual_results) :
              LET r == results.individual_results[j]
              IN  \A k \in Range(MetricsOf(system)) :
                     /\ r[k].reason = Reason(k, test_cases[j], r[k].score)
                     /\ r[k].score = results.scores[k][j]
                     /\ r[k].passed = IF k = "toxicity"
                                      THEN toxicity_passed(evaluator, r[k].score)
                                      ELSE check_pass_threshold(evaluator, r[k].score)
        /\ system = "chatbot" =>
              \A j \in 1..Len(results.toxic_cases) :
                 LET t == results.toxic_cases[j]
                 IN  /\ t.input = test_cases[t.test_case_id + 1].input
                     /\ t.reason = Reason("toxicity", test_cases[t.test_case_id + 1],
                                          t.toxicity_score)

C20_Witness ==
    /\ pc = "evaluated"
    /\ system = "rag"
    /\ Len(test_cases) = 2
    /\ results.individual_results[1].faithfulness.score
          # results.individual_results[2].faithfulness.score
    /\ results.individual_results[2].faithfulness.score
          # results.individual_results[2].answer_relevancy.score
    /\ results.individual_results[1].faithfulness.reason
          # results.individual_results[2].faithfulness.reason

----------------------------------------------------------------------------
(* Process status *)

\* C14: a chatbot run with critical_failure returns a non-zero status that
\* differs from the status of a run that fails on answer relevancy only
\* (critical_failure false, passed false).
C14_CriticalFailureStatusDistinct ==
    (pc = "done" /\ system = "chatbot" /\ results.critical_failure) =>
        /\ exit_code # 0
        /\ exit_code # run_chatbot_evaluation_status(
                           [critical_failure |-> FALSE, passed |-> FALSE])

----------------------------------------------------------------------------
(* Reports *)

\* C16: the saved HTML document decides nothing itself: its banner shows pass
\* exactly when results.passed is true, it has one row per individual result
\* and each metric cell of a row is marked pass exactly when the stored
\* passed flag of that metric is true and shows the stored score; a JSON
\* artifact saved for the same results carries the same pass/fail values.
C16_HtmlShowsStoredVerdicts ==
    (pc = "done" /\ <<system, "html">> \in reports) =>
        LET html == docs.html
            cases == results.individual_results
        IN  /\ (html.status_text = "pass") <=> results.passed
            /\ Len(html.case_rows) = Len(cases)
            /\ \A j \in 1..Len(cases) :
                  /\ html.case_rows[j].test_id = cases[j].test_case_id
                  /\ Len(html.case_rows[j].cells) = Len(MetricsOf(system))
                  /\ \A c \in 1..Len(html.case_rows[j].cells) :
                        LET cell == html.case_rows[j].cells[c]
                        IN  /\ cell.metric \in Range(MetricsOf(system))
                            /\ (cell.css_class = "pass") <=> cases[j][cell.metric].passed
                            /\ cell.score = cases[j][cell.metric].score
                            /\ <<system, "json">> \in reports =>
                                  (cell.css_class = "pass") <=>
                                     (docs.json.individual_results[j][cell.metric].passed
                                         = "true")
            /\ <<system, "json">> \in reports =>
                  (html.status_text = "pass") <=> (docs.json.passed = "true")

C16_Witness ==
    /\ pc = "done"
    /\ system = "chatbot"
    /\ {<<"chatbot", "html">>, <<"chatbot", "json">>} \subseteq reports
    /\ Len(test_cases) = 2
    /\ docs.html.status_text = "fail"
    /\ docs.html.case_rows[1].cells[1].css_class = "pass"
    /\ docs.html.case_rows[1].cells[1].score = 0
    /\ docs.html.case_rows[2].cells[1].css_class = "fail"
    /\ docs.html.case_rows[2].cells[2].css_class = "pass"

\* C17: in a saved chatbot HTML document the critical block is present
\* exactly when toxic_cases is not empty, and then lists every toxic case
\* once, in toxic_cases order, with its id and toxicity score; a RAG or Agent
\* document has no such block.
C17_WarningsListToxicCases ==
    (pc = "done" /\ <<system, "html">> \in reports) =>
        LET warnings == docs.html.warnings
        IN  IF system = "chatbot"
            THEN /\ (warnings # <<>>) <=> (results.toxic_cases # <<>>)
                 /\ warnings # <<>> =>
                       /\ Len(warnings) = 1
                       /\ warnings[1].count = Len(results.toxic_cases)
                       /\ Len(warnings[1].items) = Len(results.toxic_cases)
                       /\ \A j \in 1..Len(results.toxic_cases) :
                             /\ warnings[1].items[j].test_case_id
                                   = results.toxic_cases[j].test_case_id
                             /\ warnings[1].items[j].toxicity_score
                                   = results.toxic_cases[j].toxicity_score
            ELSE warnings = <<>>

C17_Witness ==
    /\ pc = "done"
    /\ system = "chatbot"
    /\ <<"chatbot", "html">> \in reports
    /\ Len(results.toxic_cases) = 2
    /\ Len(docs.html.warnings) = 1
    /\ docs.html.warnings[1].items[1].test_case_id = 0
    /\ docs.html.warnings[1].items[2].test_case_id = 1

\* C18: once evaluate has returned, no call of generate_report,
\* save_json_report or save_html_report, in whatever order and however often,
\* changes the results dictionary.
C18_ReportsLeaveResultsUnchanged ==
    [][pc = "evaluated" => results' = results]_vars

C18_Witness ==
    /\ pc = "evaluated"
    /\ system = "chatbot"
    /\ results.toxic_cases # <<>>
    /\ reports = {<<"chatbot", "json">>, <<"chatbot", "html">>}
    /\ "status" \in DOMAIN docs.text
    /\ docs.text.status = "FAILED"
    /\ docs.json.passed = "false"
    /\ docs.html.status_text = "fail"

----------------------------------------------------------------------------
(* main *)

\* C13: with the "all" selection the RAG, Agent and Chatbot runs are entered
\* in that order; when a run raises, status 1 is recorded for it, and when it
\* returns, its status is recorded, and in both cases the next run is entered;
\* when run_all_evaluations returns, all three runs were entered and the
\* status is the largest of the three recorded statuses.
C13_AllRunsIsolatedWorstStatus ==
    [][selection = "all" =>
          /\ pc = "raised" => exit_codes' = Append(exit_codes, 1)
          /\ pc = "done" => exit_codes' = Append(exit_codes, exit_code)
          /\ (pc \in {"raised", "done"} /\ Len(exit_codes) < 2) =>
                /\ pc' = "start"
                /\ system' = RunAllOrder[Len(exit_codes) + 2]
          /\ Len(ran') <= 3
          /\ \A j \in 1..Len(ran') : ran'[j] = RunAllOrder[j]
          /\ (pc \in {"raised", "done"} /\ pc' = "returned") =>
                /\ ran' = RunAllOrder
                /\ Len(exit_codes') = 3
                /\ \A j \in 1..3 : main_status' >= exit_codes'[j]
                /\ \E j \in 1..3 : main_status' = exit_codes'[j]
    ]_vars

C13_Witness ==
    /\ selection = "all"
    /\ pc = "returned"
    /\ ran = <<"rag", "agent", "chatbot">>
    /\ exit_codes = <<1, 0, 0>>
    /\ main_status = 1
    /\ <<"rag", "json">> \notin reports
    /\ <<"agent", "json">> \in reports
    /\ <<"chatbot", "json">> \in reports

\* C15: with a single system selected, main enters only that system's run
\* function, at most once, only that system's reports are written, and when
\* the run returns a status main returns that status.
C15_SingleSelectionRunsOnlyThatSystem ==
    selection # "all" =>
        /\ Len(ran) <= 1
        /\ \A j \in 1..Len(ran) : ran[j] = selection
        /\ system \in {"none", selection}
        /\ \A r \in reports : r[1] = selection
        /\ exit_codes = <<>>
        /\ (pc = "returned" /\ exit_code # NoCode) => main_status = exit_code

C15_Witness ==
    /\ selection = "agent"
    /\ pc = "returned"
    /\ ran = <<"agent">>
    /\ reports = {<<"agent", "json">>, <<"agent", "html">>}
    /\ exit_code = 0
    /\ main_status = 0

----------------------------------------------------------------------------
(* Validation *)

\* C23: validate_dataset returns True exactly when the list is not empty and
\* every case has a non-empty input and a non-empty actual_output; otherwise
\* it raises, for the empty list with "Dataset is empty" and else naming the
\* smallest 0-based index of a case with an empty input or actual_output.
C23_ValidateDatasetContract ==
    pc = "validated" =>
        LET offending == {j \in 1..Len(test_cases) :
                             test_cases[j].input = "" \/ test_cases[j].actual_output = ""}
        IN  /\ validation.ok <=> (test_cases # <<>> /\ offending = {})
            /\ test_cases = <<>> => validation.error = "Dataset is empty"
            /\ offending # {} =>
                  /\ validation.error = "has missing required fields"
                  /\ validation.index + 1 \in offending
                  /\ \A j \in offending : validation.index + 1 <= j

C23_Witness ==
    /\ pc = "validated"
    /\ Len(test_cases) = 2
    /\ test_cases[1].input # ""
    /\ test_cases[1].actual_output # ""
    /\ test_cases[2].input # ""
    /\ test_cases[2].actual_output = ""
    /\ ~validation.ok
    /\ validation.index = 1

----------------------------------------------------------------------------
(* main: options, key check, status *)

\* C22: when --threshold X is given, every evaluator constructed afterwards
\* in the process has X as its pass threshold, and every per-case pass of a
\* higher-is-better metric it records is score >= X.
C22_ThresholdOptionOverrides ==
    (arg_threshold # NoCode /\ system # "none") =>
        /\ evaluator.threshold = arg_threshold
        /\ calls >= 1 =>
              \A j \in 1..Len(results.individual_results) :
                 results.individual_results[j].answer_relevancy.passed
                    <=> (results.individual_results[j].answer_relevancy.score
                            >= arg_threshold)

\* C24: when the API key is empty or the placeholder "your_api_key_here",
\* main returns 1 with no directory created, no run function entered, no
\* dataset loaded and no judge call made, whatever system was selected.
C24_InvalidKeyReturnsOneFirst ==
    (gemini_api_key \in {"", "your_api_key_here"}) =>
        /\ pc \in {"main", "returned"}
        /\ pc = "returned" => main_status = 1
        /\ ~dirs_created
        /\ ran = <<>>
        /\ calls = 0
        /\ test_cases = <<>>
        /\ judge_calls = <<>>
        /\ reports = {}

C24_Witness ==
    /\ gemini_api_key = "your_api_key_here"
    /\ selection = "all"
    /\ pc = "returned"
    /\ main_status = 1
    /\ ~dirs_created

\* C25: for a single selected system main returns 0 exactly when the run
\* completed with results.passed true, 1 when it completed with passed false
\* or when loading, evaluation or report saving raised, 130 when it was
\* interrupted, and nothing else.
C25_SingleRunStatusMapping ==
    [][(selection # "all" /\ pc # "main" /\ pc' = "returned") =>
          /\ main_status' \in {0, 1, 130}
          /\ pc = "done" => main_status' = (IF results.passed THEN 0 ELSE 1)
          /\ pc = "raised" => main_status' = 1
          /\ pc \in {"start", "measuring", "evaluated"} => main_status' = 130
          /\ main_status' = 0 => ("passed" \in DOMAIN results /\ results.passed)
    ]_vars

C25_Witness ==
    /\ selection = "chatbot"
    /\ pc = "returned"
    /\ main_status = 130
    /\ Len(judge_calls) = 3
    /\ Len(results.individual_results) = 1
    /\ exit_code = NoCode

----------------------------------------------------------------------------
(* Verdicts *)

\* C26: for RAG and Agent on a non-empty case list the score lists have equal
\* length, the pooled average is the mean of the per-metric averages, and so
\* passed is true exactly when every per-metric average is at least the
\* threshold; no result has every per-metric average at or above the
\* threshold and the overall average below it.
C26_PooledClauseNeverDecides ==
    (Finished /\ calls >= 1 /\ system \in {"rag", "agent"} /\ test_cases # <<>>) =>
        LET metrics == Range(MetricsOf(system))
            n == Len(test_cases)
            every == \A k \in metrics : AtLeast(results.average[k], evaluator.threshold)
        IN  /\ \A k \in metrics : Len(results.scores[k]) = n
            /\ results.overall_average.den = n * Cardinality(metrics)
            /\ \A k \in metrics : results.average[k].den = n
            /\ results.overall_average.num
                  = Total([j \in 1..Len(MetricsOf(system)) |->
                              results.average[MetricsOf(system)[j]].num])
            /\ results.passed <=> every
            /\ every => AtLeast(results.overall_average, evaluator.threshold)

C26_Witness ==
    /\ pc = "evaluated"
    /\ system = "agent"
    /\ Len(test_cases) = 2
    /\ AtLeast(results.overall_average, evaluator.threshold)
    /\ ~AtLeast(results.average["correctness"], evaluator.threshold)
    /\ AtLeast(results.average["answer_relevancy"], evaluator.threshold)
    /\ ~results.passed

\* C27: in every result of the chatbot evaluator critical_failure holds
\* exactly when toxic_cases is not empty and implies that passed is false;
\* so the status run_chatbot_evaluation returns is 0 exactly when passed is
\* true, the same as without its critical-failure branch.
C27_CriticalFailureImpliesNotPassed ==
    (Finished /\ calls >= 1 /\ system = "chatbot") =>
        /\ results.critical_failure <=> (results.toxic_cases # <<>>)
        /\ results.critical_failure => ~results.passed
        /\ run_chatbot_evaluation_status(results) = (IF results.passed THEN 0 ELSE 1)
        /\ pc = "done" => (exit_code = 0 <=> results.passed)
        /\ pc = "done" => exit_code = (IF results.passed THEN 0 ELSE 1)

C27_Witness ==
    /\ pc = "done"
    /\ system = "chatbot"
    /\ results.critical_failure
    /\ Len(results.toxic_cases) = 1
    /\ AtLeast(results.average["answer_relevancy"], evaluator.threshold)
    /\ ~results.passed
    /\ exit_code = 1

AllCasesPassed ==
    \A j \in 1..Len(results.individual_results) :
       \A k \in Range(MetricsOf(system)) : results.individual_results[j][k].passed

\* C28: on a non-empty case list, when every metric of every individual
\* result has passed true, the overall passed is true, for the three
\* evaluators; the converse fails, as the state C28_PassedWithFailingCase
\* shows.
C28_AllCasesPassedImpliesPassed ==
    (Finished /\ calls >= 1 /\ test_cases # <<>> /\ AllCasesPassed) => results.passed

C28_Witness ==
    /\ pc = "evaluated"
    /\ system = "chatbot"
    /\ Len(test_cases) = 2
    /\ AllCasesPassed
    /\ results.passed
    /\ evaluator.toxicity_threshold = 2
    /\ results.scores["toxicity"] = <<0, 0>>

(* passed is true although one case failed a higher-is-better metric *)
C28_PassedWithFailingCase ==
    /\ pc = "evaluated"
    /\ system = "rag"
    /\ Len(test_cases) = 2
    /\ results.passed
    /\ ~results.individual_results[1].faithfulness.passed
    /\ results.individual_results[2].faithfulness.passed

\* C30: a run function writes a report only after evaluate has returned and
\* only of the kinds that are enabled: before that nothing is written or
\* rendered, after a failed judge call no report exists and nothing of the
\* cases scored so far is rendered, and a finished run has written exactly
\* the JSON report if save_json and the HTML report if save_html.
C30_ReportsOnlyAfterEvaluate ==
    /\ \A r \in reports :
          /\ r[1] = system
          /\ pc \in {"done", "raised"}
          /\ "passed" \in DOMAIN results
          /\ r[2] = "json" => settings.save_json
          /\ r[2] = "html" => settings.save_html
    /\ pc \in {"start", "measuring"} => (reports = {} /\ docs = NoDocs)
    /\ (judge_calls # <<>> /\ judge_calls[Len(judge_calls)].outcome = "raise") =>
          (reports = {} /\ docs = NoDocs /\ exit_code = NoCode)
    /\ pc = "done" =>
          /\ (<<system, "json">> \in reports) <=> settings.save_json
          /\ (<<system, "html">> \in reports) <=> settings.save_html

C30_Witness ==
    /\ pc = "raised"
    /\ system = "rag"
    /\ settings.save_json
    /\ settings.save_html
    /\ Len(test_cases) = 2
    /\ Len(results.individual_results) = 1
    /\ judge_calls[Len(judge_calls)].outcome = "raise"
    /\ reports = {}
    /\ docs = NoDocs

----------------------------------------------------------------------------
(* Sessions *)

(* The score the repeating judge gives for metric k on this case. *)
MemoScore(memo, k, case) == (CHOOSE t \in memo : t[1] = k /\ t[2] = case)[3]

(* What evaluate returns on a new evaluator for these cases and this judge. *)
RECURSIVE FreshStored(_, _, _, _, _)
FreshStored(sys, cases, ev, memo, n) ==
    IF n = 0 THEN ResultsInitOf(sys, cases)
    ELSE LET case == cases[n]
             loc == [k \in Range(MetricsOf(sys)) |-> MemoScore(memo, k, case)]
             mobj == [k \in Range(MetricsOf(sys)) |->
                         [score |-> loc[k], reason |-> Reason(k, case, loc[k]),
                          success |-> FALSE]]
         IN  StoreOf(sys, FreshStored(sys, cases, ev, memo, n - 1), ev, n - 1, case,
                     loc, mobj)

FreshResult(sys, cases, ev, memo) ==
    FinishOf(sys, FreshStored(sys, cases, ev, memo, Len(cases)), ev)

\* C29: with a judge that repeats its answers, every evaluate call on an
\* evaluator, the first and the one after a call that returned or aborted
\* on a judge failure, returns for its case list the result a new evaluator
\* returns; score lists, toxic_cases and individual_results hold one entry
\* per case of this call and nothing of the earlier call.
C29_NoStateAcrossEvaluateCalls ==
    (pc = "evaluated" /\ calls >= 1) =>
        /\ results = FreshResult(system, test_cases, evaluator, judge_memo)
        /\ Len(results.individual_results) = Len(test_cases)
        /\ \A k \in Range(MetricsOf(system)) : Len(results.scores[k]) = Len(test_cases)
        /\ system = "chatbot" => Len(results.toxic_cases) <= Len(test_cases)

(* the first call aborted after scoring a toxic case; the second call ran on *)
(* the reversed list                                                         *)
C29_Witness ==
    /\ pc = "evaluated"
    /\ calls = 2
    /\ system = "chatbot"
    /\ "passed" \notin DOMAIN first_results
    /\ Len(first_results.toxic_cases) = 1
    /\ Len(test_cases) = MaxCases
    /\ test_cases[1].input = Inputs[MaxCases]
    /\ Len(results.toxic_cases) = 1
    /\ Len(results.individual_results) = MaxCases

====
